---- MODULE Spec2Model ----
(***************************************************************************)
(* Model of unitconfigcleaner.py: the Streamlit unit-configuration cleaner. *)
(*                                                                         *)
(* A text value (a cell, a header, a line of the exported CSV) is a        *)
(* sequence of one-character strings, so that strip(), lower(), upper(),   *)
(* the regular expression of contains_special_chars and " - ".join are     *)
(* computed character by character as the Python code computes them.       *)
(***************************************************************************)
EXTENDS Integers, Sequences, FiniteSets, TLC

\* ---------------------------------------------------------------- bounds
\* longest text value drawn for the checks of the pure functions
MaxLen == 3
\* most rows of an uploaded table
MaxRows == 3
\* most files of one upload
MaxFiles == 2
\* how many times a downloaded export is uploaded again
MaxReloads == 1

\* ---------------------------------------------------------------- text
UpperCase == <<"A","B","C","D","E","F","G","H","I","J","K","L","M",
               "N","O","P","Q","R","S","T","U","V","W","X","Y","Z">>
LowerCase == <<"a","b","c","d","e","f","g","h","i","j","k","l","m",
               "n","o","p","q","r","s","t","u","v","w","x","y","z">>
Digits == {"0","1","2","3","4","5","6","7","8","9"}

ToLower == [c \in {UpperCase[i] : i \in DOMAIN UpperCase} |->
              LowerCase[CHOOSE i \in DOMAIN UpperCase : UpperCase[i] = c]]
ToUpper == [c \in {LowerCase[i] : i \in DOMAIN LowerCase} |->
              UpperCase[CHOOSE i \in DOMAIN LowerCase : LowerCase[i] = c]]

IsUpper(c) == c \in DOMAIN ToLower
IsLower(c) == c \in DOMAIN ToUpper

\* str.lower() / str.upper() on one character
LowerChar(c) == IF c \in DOMAIN ToLower THEN ToLower[c] ELSE c
UpperChar(c) == IF c \in DOMAIN ToUpper THEN ToUpper[c] ELSE c

LowerStr(s) == [i \in DOMAIN s |-> LowerChar(s[i])]
UpperStr(s) == [i \in DOMAIN s |-> UpperChar(s[i])]

\* what str.strip() removes and the regular expression's \s accepts
IsSpace(c) == c \in {" ", "\t"}

\* str.strip(): drop leading and trailing whitespace
Strip(s) ==
  LET keep == {i \in DOMAIN s : ~IsSpace(s[i])}
  IN IF keep = {} THEN <<>>
     ELSE LET lo == CHOOSE i \in keep : \A j \in keep : i <= j
              hi == CHOOSE i \in keep : \A j \in keep : j <= i
          IN SubSeq(s, lo, hi)

\* `kw in s`
IsSubstring(kw, s) ==
  \E i \in 0..(Len(s) - Len(kw)) : SubSeq(s, i + 1, i + Len(kw)) = kw

\* sep.join(parts)
RECURSIVE Join(_, _)
Join(parts, sep) ==
  IF Len(parts) = 0 THEN <<>>
  ELSE IF Len(parts) = 1 THEN parts[1]
  ELSE parts[1] \o sep \o Join(Tail(parts), sep)

\* the elements of s at the positions in keep, in order
RECURSIVE SelectIdx(_, _)
SelectIdx(s, keep) ==
  IF s = <<>> THEN <<>>
  ELSE LET n == Len(s)
           front == SelectIdx(SubSeq(s, 1, n - 1), keep)
       IN IF n \in keep THEN Append(front, s[n]) ELSE front

\* literals used by the code
sEmpty == <<>>
sNSlashA == <<"N","/","A">>
sNA == <<"N","A">>
snSlasha == <<"n","/","a">>
sna == <<"n","a">>
sblank == <<"b","l","a","n","k">>
sDash == <<" ","-"," ">>
sUnit == <<"U","n","i","t">>
kwTower == <<"t","o","w","e","r">>
kwUnit == <<"u","n","i","t">>
kwCorporate == <<"c","o","r","p","o","r","a","t","e">>

\* ---------------------------------------------------------------- helpers of the code
\* the character class [^a-zA-Z0-9\s-]
mutSpecialCharNoSlash(c) ==
  ~(IsUpper(c) \/ IsLower(c) \/ c \in Digits \/ IsSpace(c) \/ c = "-" \/ c = "/")
SpecialChar(c) ==
  ~(IsUpper(c) \/ IsLower(c) \/ c \in Digits \/ IsSpace(c) \/ c = "-")

contains_special_chars(s) ==
  LET s_str == Strip(s)
  IN IF UpperStr(s_str) \in {sNSlashA, sNA, sEmpty} THEN FALSE
     ELSE \E i \in DOMAIN s_str : SpecialChar(s_str[i])

clean_field(value) ==
  LET val_str == Strip(value)
  IN IF LowerStr(val_str) \in {snSlasha, sna, sEmpty, sblank} THEN sEmpty
     ELSE val_str

\* ---------------------------------------------------------------- tables
\* A table as read_file returns it: header names and rows of text cells.
\* A DataFrame row is [i |-> index label, c |-> cells]; read_file numbers the
\* rows 0, 1, 2, ...
Frame(tbl) == [j \in 1..Len(tbl.rows) |-> [i |-> j - 1, c |-> tbl.rows[j]]]

\* next((c for c in df.columns if kw in c.lower()), None); 0 stands for None
mutFirstColDefaultsToFirst(cols, kw) ==
  LET hits == {j \in DOMAIN cols : IsSubstring(kw, LowerStr(cols[j]))}
  IN IF hits = {} THEN 1 ELSE CHOOSE j \in hits : \A h \in hits : j <= h
FirstCol(cols, kw) ==
  LET hits == {j \in DOMAIN cols : IsSubstring(kw, LowerStr(cols[j]))}
  IN IF hits = {} THEN 0 ELSE CHOOSE j \in hits : \A h \in hits : j <= h

\* df[unit_col].apply(contains_special_chars): the positions flagged
special_char_mask(df, unit_col) ==
  {p \in DOMAIN df : contains_special_chars(df[p].c[unit_col])}

Labels(df) == {df[p].i : p \in DOMAIN df}

\* df.drop(labels): the rows whose index label is not among labels, in order
mutDropKeepsLabelled(df, labels) ==
  SelectIdx(df, {p \in DOMAIN df : df[p].i \in labels})
DropLabels(df, labels) == SelectIdx(df, {p \in DOMAIN df : df[p].i \notin labels})

\* the pair (__temp_unit, __temp_tower) of a row
TempKey(row, unit_col, tower_col) ==
  << Strip(row.c[unit_col]),
     IF tower_col # 0 THEN clean_field(row.c[tower_col]) ELSE sEmpty >>

\* df.duplicated(subset, keep=False): positions whose key occurs more than once
Duplicated(keys) ==
  {p \in DOMAIN keys : \E q \in DOMAIN keys : q # p /\ keys[q] = keys[p]}

\* df.drop_duplicates(subset, keep='first'): positions of first occurrences
mutLastOccurrences(keys) ==
  {p \in DOMAIN keys : \A q \in (p + 1)..Len(keys) : keys[q] # keys[p]}
FirstOccurrences(keys) ==
  {p \in DOMAIN keys : \A q \in 1..(p - 1) : keys[q] # keys[p]}

\* build_unit_unconditional(row); corp is read and cleaned but never joined
mut_build_with_corp(row, unit_col, tower_col, corp_col) ==
  LET raw_unit == Strip(row.c[unit_col])
      raw_tower == IF tower_col # 0 THEN row.c[tower_col] ELSE sEmpty
      raw_corp == IF corp_col # 0 THEN row.c[corp_col] ELSE sEmpty
      unit == clean_field(raw_unit)
      tower == clean_field(raw_tower)
      corp == clean_field(raw_corp)
      parts == (IF tower # sEmpty THEN <<tower>> ELSE <<>>)
               \o (IF unit # sEmpty THEN <<unit>> ELSE <<>>)
               \o (IF corp # sEmpty THEN <<corp>> ELSE <<>>)
  IN Join(parts, sDash)
mut_build_raw_unit(row, unit_col, tower_col, corp_col) ==
  LET raw_unit == Strip(row.c[unit_col])
      raw_tower == IF tower_col # 0 THEN row.c[tower_col] ELSE sEmpty
      tower == clean_field(raw_tower)
      parts == (IF tower # sEmpty THEN <<tower>> ELSE <<>>) \o <<raw_unit>>
  IN Join(parts, sDash)
build_unit_unconditional(row, unit_col, tower_col, corp_col) ==
  LET raw_unit == Strip(row.c[unit_col])
      raw_tower == IF tower_col # 0 THEN row.c[tower_col] ELSE sEmpty
      raw_corp == IF corp_col # 0 THEN row.c[corp_col] ELSE sEmpty
      unit == clean_field(raw_unit)
      tower == clean_field(raw_tower)
      corp == clean_field(raw_corp)
      parts == (IF tower # sEmpty THEN <<tower>> ELSE <<>>)
               \o (IF unit # sEmpty THEN <<unit>> ELSE <<>>)
  IN Join(parts, sDash)

\* df['Unit'] = ids: overwrite the column named exactly 'Unit', or append it
SetUnitColumn(cols, df, ids) ==
  LET at == {j \in DOMAIN cols : cols[j] = sUnit}
  IN IF at = {}
     THEN [cols |-> Append(cols, sUnit),
           df |-> [p \in DOMAIN df |-> [df[p] EXCEPT !.c = Append(@, ids[p])]]]
     ELSE LET j == CHOOSE x \in at : TRUE
          IN [cols |-> cols,
              df |-> [p \in DOMAIN df |-> [df[p] EXCEPT !.c[j] = ids[p]]]]

\* df_unique.replace({'N/A': '', 'n/a': '', 'na': '', '': ''}) on one cell
ReplaceNA(cell) == IF cell \in {sNSlashA, snSlasha, sna, sEmpty} THEN sEmpty ELSE cell

\* to_csv(index=False): one line per row under a header line. pandas writes an
\* empty field of a one-column table as "" so that the line is not blank.
CsvLine(cells) ==
  IF Len(cells) = 1 /\ cells[1] = sEmpty THEN <<"\"", "\"">>
  ELSE Join(cells, <<",">>)
to_csv(cols, rows) ==
  <<CsvLine(cols)>> \o [p \in DOMAIN rows |-> CsvLine(rows[p])]

\* read_csv(dtype=str, keep_default_na=False) of such a file: split at commas
RECURSIVE SplitComma(_)
SplitComma(line) ==
  LET commas == {i \in DOMAIN line : line[i] = ","}
  IN IF commas = {} THEN <<line>>
     ELSE LET i == CHOOSE x \in commas : \A y \in commas : x <= y
          IN <<SubSeq(line, 1, i - 1)>> \o SplitComma(SubSeq(line, i + 1, Len(line)))
ParseLine(line) ==
  IF line = <<"\"", "\"">> THEN <<sEmpty>> ELSE SplitComma(line)
read_csv(lines) ==
  [cols |-> ParseLine(lines[1]),
   rows |-> [p \in 1..(Len(lines) - 1) |-> ParseLine(lines[p + 1])]]

\* s.replace(old, new): every occurrence of old, from the left, not overlapping
RECURSIVE Replace(_, _, _)
Replace(s, old, new) ==
  IF Len(s) < Len(old) THEN s
  ELSE IF SubSeq(s, 1, Len(old)) = old
  THEN new \o Replace(SubSeq(s, Len(old) + 1, Len(s)), old, new)
  ELSE <<s[1]>> \o Replace(Tail(s), old, new)

extXlsx == <<".", "x", "l", "s", "x">>
extCsv == <<".", "c", "s", "v">>
sCleanedCsv == <<"_", "c", "l", "e", "a", "n", "e", "d", ".", "c", "s", "v">>

\* the file_name of the download button
download_file_name(name) ==
  Replace(Replace(name, extXlsx, sCleanedCsv), extCsv, sCleanedCsv)

\* ---------------------------------------------------------------- session entries
Absent == "absent"     \* the key is not in st.session_state
NoneVal == "None"      \* the key holds Python's None

KeepRows == "Keep These Rows"
DeleteRows == "Delete These Rows"
CancelProcessing == "Cancel Processing"
KeepAll == "Keep All (2+ Rows)"
RetainOne == "Retain 1 Row"
SpecOptions == {KeepRows, DeleteRows, CancelProcessing}
DupOptions == {KeepAll, RetainOne, CancelProcessing}

\* the dictionaries of set_decision_spec and set_decision_dup
SpecDecisionOf(choice) ==
  CASE choice = KeepRows -> "keep"
    [] choice = DeleteRows -> "delete"
    [] choice = CancelProcessing -> "cancel"
    [] OTHER -> NoneVal
DupDecisionOf(choice) ==
  CASE choice = KeepAll -> "keep"
    [] choice = RetainOne -> "retain_one"
    [] choice = CancelProcessing -> "cancel"
    [] OTHER -> NoneVal

NoResult == [kind |-> Absent, deleted |-> 0, total |-> 0]
NoData == [has |-> FALSE, cols |-> <<>>, rows |-> <<>>]
NoOutput == [has |-> FALSE, csv |-> <<>>]

\* the entries st.session_state holds for one file key
NoEntry ==
  [result |-> NoResult, data |-> NoData, output |-> NoOutput,
   decision_spec |-> Absent, choice_spec |-> Absent, radio_spec |-> Absent,
   decision_dup |-> Absent, choice_dup |-> Absent, radio_dup |-> Absent]

\* the widgets one render shows for one file: each Confirm button with the
\* choice its on_click closure captured, and the download button
NoWidgets == [btn_spec |-> Absent, btn_dup |-> Absent, download |-> FALSE]

\* what the latest pass of clean_units_streamlit beyond its cache check did
NoTrace ==
  [ran |-> FALSE, read |-> FALSE, problem_rows |-> <<>>, specGate |-> FALSE,
   dupChecked |-> FALSE, afterSpec |-> <<>>, dup_rows |-> <<>>, dupGate |-> FALSE,
   duplicate_decision |-> Absent, built |-> FALSE, builtRows |-> <<>>, ids |-> <<>>,
   emptyApply |-> FALSE, exported |-> FALSE, outCols |-> <<>>, outRows |-> <<>>]

\* ---------------------------------------------------------------- review handlers
\* review_special_char_rows: show the rows and the radio; while the decision is
\* None show the Confirm button and st.stop()
mut_review_spec_no_stop(e) ==
  LET dec == IF e.decision_spec = Absent THEN NoneVal ELSE e.decision_spec
      radio == IF e.radio_spec = Absent THEN KeepRows ELSE e.radio_spec
      current_choice == IF e.choice_spec = Absent THEN KeepRows ELSE e.choice_spec
  IN [e |-> [e EXCEPT !.decision_spec = dec, !.radio_spec = radio],
      btn |-> IF dec = NoneVal THEN SpecDecisionOf(current_choice) ELSE Absent,
      stop |-> FALSE,
      ret |-> dec]
review_special_char_rows(e) ==
  LET dec == IF e.decision_spec = Absent THEN NoneVal ELSE e.decision_spec
      radio == IF e.radio_spec = Absent THEN KeepRows ELSE e.radio_spec
      current_choice == IF e.choice_spec = Absent THEN KeepRows ELSE e.choice_spec
  IN [e |-> [e EXCEPT !.decision_spec = dec, !.radio_spec = radio],
      btn |-> IF dec = NoneVal THEN SpecDecisionOf(current_choice) ELSE Absent,
      stop |-> dec = NoneVal,
      ret |-> dec]

\* review_duplicate_rows: the same for the duplicate rows
mut_review_dup_default_choice(e) ==
  LET dec == IF e.decision_dup = Absent THEN NoneVal ELSE e.decision_dup
      radio == IF e.radio_dup = Absent THEN KeepAll ELSE e.radio_dup
      current_choice == KeepAll
  IN [e |-> [e EXCEPT !.decision_dup = dec, !.radio_dup = radio],
      btn |-> IF dec = NoneVal THEN DupDecisionOf(current_choice) ELSE Absent,
      stop |-> dec = NoneVal,
      ret |-> dec]
review_duplicate_rows(e) ==
  LET dec == IF e.decision_dup = Absent THEN NoneVal ELSE e.decision_dup
      radio == IF e.radio_dup = Absent THEN KeepAll ELSE e.radio_dup
      current_choice == IF e.choice_dup = Absent THEN KeepAll ELSE e.choice_dup
  IN [e |-> [e EXCEPT !.decision_dup = dec, !.radio_dup = radio],
      btn |-> IF dec = NoneVal THEN DupDecisionOf(current_choice) ELSE Absent,
      stop |-> dec = NoneVal,
      ret |-> dec]

\* ---------------------------------------------------------------- clean_units_streamlit
\* Each step yields the set of its outcomes [e, stop, w, tr]: the entries of the
\* file key afterwards, whether st.stop() ended the run, the widgets shown and
\* the trace. A value computed once and used by the following lines is bound
\* as  x \in {value}.

\* the except clause: the error message becomes the file's result
mutFailedStops(e, w, tr) ==
  [e |-> [e EXCEPT !.result = [kind |-> "error", deleted |-> 0, total |-> 0]],
   stop |-> TRUE, w |-> w, tr |-> tr]
Failed(e, w, tr) ==
  [e |-> [e EXCEPT !.result = [kind |-> "error", deleted |-> 0, total |-> 0]],
   stop |-> FALSE, w |-> w, tr |-> tr]

\* a cancel branch: the message becomes the file's result
mutCanceledNotStored(e, w, tr, kind) == [e |-> e, stop |-> FALSE, w |-> w, tr |-> tr]
Canceled(e, w, tr, kind) ==
  [e |-> [e EXCEPT !.result = [kind |-> kind, deleted |-> 0, total |-> 0]],
   stop |-> FALSE, w |-> w, tr |-> tr]

\* st.stop() inside a review handler
mutSuspendedGoesOn(e, w, tr) == [e |-> e, stop |-> FALSE, w |-> w, tr |-> tr]
Suspended(e, w, tr) == [e |-> e, stop |-> TRUE, w |-> w, tr |-> tr]

\* step 4, the final drop_duplicates(subset=['Unit']) or none
mutFinalKeepAll(df, ids, duplicate_decision) == df
mutFinalAlwaysCollapse(df, ids, duplicate_decision) ==
  SelectIdx(df, FirstOccurrences(ids))
FinalRows(df, ids, duplicate_decision) ==
  IF duplicate_decision = "retain_one"
  THEN SelectIdx(df, FirstOccurrences(ids))
  ELSE df

\* lines 242-264: drop the scratch columns, replace, to_csv, download button, result
WriteOutput(e, w, tr, outCols, df_unique, deleted_rows_count) ==
  { [e |-> [e EXCEPT !.output = [has |-> TRUE, csv |-> to_csv(outCols, outRows)],
                     !.result = [kind |-> "processed",
                                 deleted |-> deleted_rows_count,
                                 total |-> Len(df_unique)]],
     stop |-> FALSE,
     w |-> [w EXCEPT !.download = TRUE],
     tr |-> [tr EXCEPT !.exported = TRUE, !.outCols = outCols, !.outRows = outRows]]
    : outRows \in { [p \in DOMAIN df_unique |->
                      [j \in DOMAIN df_unique[p].c |-> ReplaceNA(df_unique[p].c[j])]] } }

\* steps 3 and 4: build the identifiers, write the output, offer the download.
\* df.apply(..., axis=1) of a frame without rows yields, depending on the pandas
\* build, an empty column (the run goes on) or a frame that cannot be assigned
\* to a column (the run raises): both outcomes are kept.
BuildAndExport(e, w, tr, cols, df, unit_col, tower_col, corp_col, duplicate_decision, deleted_rows_count) ==
  (IF Len(df) = 0 THEN {Failed(e, w, [tr EXCEPT !.emptyApply = TRUE])} ELSE {})
  \cup
  UNION { UNION { WriteOutput(e, w,
                              [tr EXCEPT !.emptyApply = (Len(df) = 0), !.built = TRUE,
                                         !.builtRows = df, !.ids = ids],
                              withUnit.cols, df_unique, deleted_rows_count)
                  : withUnit \in {SetUnitColumn(cols, df, ids)},
                    df_unique \in {FinalRows(SetUnitColumn(cols, df, ids).df, ids,
                                             duplicate_decision)} }
          : ids \in { [p \in DOMAIN df |->
                        build_unit_unconditional(df[p], unit_col, tower_col, corp_col)] } }

\* lines 187-197: the duplicate gate and its answer, then steps 3 and 4
AfterDuplicateCheck(e, w, tr, cols, df, unit_col, tower_col, corp_col, deleted_rows_count, keys, dup_rows, rv) ==
  LET gate == Len(dup_rows) # 0
      tr1 == [tr EXCEPT !.dupChecked = TRUE, !.afterSpec = df, !.dup_rows = dup_rows,
                        !.dupGate = gate,
                        !.duplicate_decision = IF gate THEN rv.ret ELSE "retain_one"]
      w1 == [w EXCEPT !.btn_dup = IF gate THEN rv.btn ELSE Absent]
  IN IF gate /\ rv.stop THEN {Suspended(rv.e, w1, tr1)}
     ELSE IF gate /\ rv.ret = "cancel" THEN {Canceled(rv.e, w1, tr1, "cancel_dup")}
     ELSE UNION { BuildAndExport(IF gate THEN rv.e ELSE [e EXCEPT !.radio_dup = Absent],
                                 w1, tr1, cols, kept, unit_col, tower_col, corp_col,
                                 IF gate THEN rv.ret ELSE "retain_one",
                                 deleted_rows_count)
                  : kept \in { IF gate /\ rv.ret = "retain_one"
                               THEN SelectIdx(df, FirstOccurrences(keys))
                               ELSE df } }

\* step 2: the duplicate check on (__temp_unit, __temp_tower)
mutCheckDuplicatesOnCache(e, w, tr, cols, df, unit_col, tower_col, corp_col, deleted_rows_count) ==
  UNION { UNION { AfterDuplicateCheck(e2, w, tr, cols, df, unit_col, tower_col, corp_col,
                                      deleted_rows_count, keys, dup_rows, rv)
                  : dup_rows \in {SelectIdx(df, Duplicated(keys))},
                    rv \in {review_duplicate_rows(e2)} }
          : keys \in { [p \in DOMAIN df |-> TempKey(df[p], unit_col, tower_col)] },
            e2 \in { [e EXCEPT !.data.rows = [p \in DOMAIN df |-> df[p].c]] } }
CheckDuplicates(e, w, tr, cols, df, unit_col, tower_col, corp_col, deleted_rows_count) ==
  UNION { UNION { AfterDuplicateCheck(e, w, tr, cols, df, unit_col, tower_col, corp_col,
                                      deleted_rows_count, keys, dup_rows, rv)
                  : dup_rows \in {SelectIdx(df, Duplicated(keys))},
                    rv \in {review_duplicate_rows(e)} }
          : keys \in { [p \in DOMAIN df |-> TempKey(df[p], unit_col, tower_col)] } }

\* lines 163-172: the special-character gate and its answer, then step 2
AfterSpecialCharCheck(e, w, tr, cols, df, unit_col, tower_col, corp_col, problem_rows, rv) ==
  LET gate == Len(problem_rows) # 0
      tr1 == [tr EXCEPT !.problem_rows = problem_rows, !.specGate = gate]
      w1 == [w EXCEPT !.btn_spec = IF gate THEN rv.btn ELSE Absent]
  IN IF gate /\ rv.stop THEN {Suspended([rv.e EXCEPT !.radio_dup = Absent], w1, tr1)}
     ELSE IF gate /\ rv.ret = "cancel"
     THEN {Canceled([rv.e EXCEPT !.radio_dup = Absent], w1, tr1, "cancel_spec")}
     ELSE UNION { CheckDuplicates(IF gate THEN rv.e ELSE [e EXCEPT !.radio_spec = Absent],
                                  w1, tr1, cols, kept, unit_col, tower_col, corp_col,
                                  IF gate /\ rv.ret = "delete"
                                  THEN Len(problem_rows) ELSE 0)
                  : kept \in { IF gate /\ rv.ret = "delete"
                               THEN DropLabels(df, Labels(problem_rows))
                               ELSE df } }

\* step 1: the special-character check on the Unit column
CheckSpecialChars(e, w, tr, cols, df, unit_col, tower_col, corp_col) ==
  UNION { AfterSpecialCharCheck(e, w, tr, cols, df, unit_col, tower_col, corp_col,
                                problem_rows, rv)
          : problem_rows \in {SelectIdx(df, special_char_mask(df, unit_col))},
            rv \in {review_special_char_rows(e)} }

\* lines 145-154: copy the cached table, identify the columns
IdentifyColumns(e, tr) ==
  UNION { IF unit_col = 0
          THEN { [e |-> [e EXCEPT !.radio_spec = Absent, !.radio_dup = Absent,
                                  !.result = [kind |-> "missing", deleted |-> 0,
                                              total |-> 0]],
                  stop |-> FALSE, w |-> NoWidgets, tr |-> tr] }
          ELSE CheckSpecialChars(e, NoWidgets, tr, e.data.cols, df, unit_col,
                                 tower_col, corp_col)
          : df \in {Frame(e.data)},
            tower_col \in {FirstCol(e.data.cols, kwTower)},
            unit_col \in {FirstCol(e.data.cols, kwUnit)},
            corp_col \in {FirstCol(e.data.cols, kwCorporate)} }

\* clean_units_streamlit(file, file_key) on the entries e of file_key; tr is the
\* trace kept from earlier passes
mut_clean_units_no_cache(file, e, tr) ==
  IF ~e.data.has /\ ~file.ok
  THEN { Failed([e EXCEPT !.radio_spec = Absent, !.radio_dup = Absent], NoWidgets,
                [NoTrace EXCEPT !.ran = TRUE, !.read = TRUE]) }
  ELSE UNION { IdentifyColumns(e1, [NoTrace EXCEPT !.ran = TRUE, !.read = ~e.data.has])
               : e1 \in { IF e.data.has THEN e
                          ELSE [e EXCEPT !.data = [has |-> TRUE, cols |-> file.cols,
                                                   rows |-> file.rows]] } }
clean_units_streamlit(file, e, tr) ==
  IF e.result.kind # Absent
  THEN { [e |-> [e EXCEPT !.radio_spec = Absent, !.radio_dup = Absent],
          stop |-> FALSE, w |-> NoWidgets, tr |-> tr] }
  ELSE IF ~e.data.has /\ ~file.ok
  THEN { Failed([e EXCEPT !.radio_spec = Absent, !.radio_dup = Absent], NoWidgets,
                [NoTrace EXCEPT !.ran = TRUE, !.read = TRUE]) }
  ELSE UNION { IdentifyColumns(e1, [NoTrace EXCEPT !.ran = TRUE, !.read = ~e.data.has])
               : e1 \in { IF e.data.has THEN e
                          ELSE [e EXCEPT !.data = [has |-> TRUE, cols |-> file.cols,
                                                   rows |-> file.rows]] } }

\* ---------------------------------------------------------------- inputs
tA == <<"A">>
tNSlashA == sNSlashA
u1 == <<"1">>
uSp1 == <<" ", "1">>
u1Slash2 == <<"1", "/", "2">>
cX == <<"X">>
cY == <<"Y">>

uADash1 == <<"A", " ", "-", " ", "1">>

\* rows as (Tower, Unit, Corporate), in the order they take in a table
RowPool ==
  << <<tA, u1, cX>>,            \* a plain row
     <<tA, u1Slash2, cX>>,      \* a Unit with a special character
     <<tA, uSp1, cY>>,          \* Tower and Unit of the first up to whitespace, another Corporate
     <<sEmpty, uADash1, cX>>,   \* no Tower, a Unit that reads like "Tower - Unit"
     <<tNSlashA, u1, sNA>>,     \* Tower N/A, Corporate NA
     <<tA, sna, snSlasha>> >>   \* Unit na, Corporate n/a

hTower == <<"T","o","w","e","r">>
hUnitNo == <<"U","n","i","t"," ","N","o">>
hCorporate == <<"C","o","r","p","o","r","a","t","e">>

\* header layouts: each column is (name, position of its value in a pool row)
LayoutUnit == << <<hTower, 1>>, <<sUnit, 2>>, <<hCorporate, 3>> >>
LayoutUnitNo == << <<hTower, 1>>, <<hUnitNo, 2>>, <<hCorporate, 3>> >>
LayoutUnitOnly == << <<hUnitNo, 2>> >>
LayoutNoUnit == << <<hTower, 1>>, <<hCorporate, 3>> >>

\* the tables of at most n rows: selections of pool rows, in pool order
TablesUpTo(n) ==
  {SelectIdx(RowPool, S) : S \in {T \in SUBSET DOMAIN RowPool : Cardinality(T) <= n}}

MakeFile(layout, rows) ==
  [ok |-> TRUE,
   cols |-> [j \in DOMAIN layout |-> layout[j][1]],
   rows |-> [p \in DOMAIN rows |-> [j \in DOMAIN layout |-> rows[p][layout[j][2]]]]]

\* a file read_file cannot read: it raises
BadFile == [ok |-> FALSE, cols |-> <<>>, rows |-> <<>>]

FilePool ==
  {MakeFile(LayoutUnit, r) : r \in TablesUpTo(MaxRows)}
  \cup {MakeFile(l, r) : l \in {LayoutUnitNo, LayoutUnitOnly, LayoutNoUnit},
                         r \in TablesUpTo(1)}
  \cup {BadFile}

\* files uploaded together
BatchPool ==
  { BadFile, MakeFile(LayoutUnitNo, << RowPool[2] >>) }

Uploads ==
  {<<>>} \cup {<<f>> : f \in FilePool}
         \cup UNION {[1..n -> BatchPool] : n \in 2..MaxFiles}

KeyIds == 0..(MaxFiles - 1)

\* ---------------------------------------------------------------- state
VARIABLES
  uploaded_files,       \* the value of the file_uploader widget
  uploaded_files_keys,  \* st.session_state['uploaded_files_keys']
  st,                   \* the other entries of st.session_state, by file key
  widgets,              \* buttons shown by the latest run of the script, by file key
  summary,              \* the results the latest run wrote under "Results Summary"
  trace,                \* by file key, what the latest pass of the pipeline did
  reloadOf,             \* the export the uploaded file was read back from, if any
  fnIn, fnOut           \* input and result of a helper function applied alone

vars == <<uploaded_files, uploaded_files_keys, st, widgets, summary, trace,
          reloadOf, fnIn, fnOut>>

NoReload == [gen |-> 0, csv |-> <<>>]
FnIdle == [op |-> "idle", unit |-> <<>>, tower |-> <<>>, corp |-> <<>>, name |-> <<>>]
FnNone == [flag |-> FALSE, text |-> <<>>]

\* ---------------------------------------------------------------- one run of the script
\* the loop over uploaded_files_keys from position i on; st.stop() in a review
\* handler ends the run
RECURSIVE ProcessFiles(_, _, _, _, _, _)
ProcessFiles(i, files, keys, S, W, T) ==
  IF i > Len(keys)
  THEN { [st |-> S, w |-> W, tr |-> T, stopped |-> FALSE, reached |-> i - 1] }
  ELSE UNION { IF r.stop
               THEN { [st |-> [S EXCEPT ![keys[i]] = r.e],
                       w |-> [W EXCEPT ![keys[i]] = r.w],
                       tr |-> [T EXCEPT ![keys[i]] = r.tr],
                       stopped |-> TRUE, reached |-> i] }
               ELSE ProcessFiles(i + 1, files, keys,
                                 [S EXCEPT ![keys[i]] = r.e],
                                 [W EXCEPT ![keys[i]] = r.w],
                                 [T EXCEPT ![keys[i]] = r.tr])
               : r \in clean_units_streamlit(files[i], S[keys[i]], T[keys[i]]) }

\* a widget that a run does not show loses its state
ForgetRadios(S, shown) ==
  [k \in KeyIds |-> IF k \in shown THEN S[k]
                    ELSE [S[k] EXCEPT !.radio_spec = Absent, !.radio_dup = Absent]]

\* the results written under "Results Summary"
ResultsSummary(keys, S) ==
  SelectIdx([i \in DOMAIN keys |-> S[keys[i]].result],
            {i \in DOMAIN keys : S[keys[i]].result.kind # Absent})

\* the script from top to bottom on session state (keys0, S): its outcomes
Run(files, keys0, S, T) ==
  IF Len(files) = 0
  THEN { [keys |-> keys0, st |-> ForgetRadios(S, {}),
          w |-> [k \in KeyIds |-> NoWidgets], tr |-> T, summary |-> <<>>] }
  ELSE UNION { { [keys |-> keys,
                  st |-> ForgetRadios(r.st, {keys[i] : i \in 1..r.reached}),
                  w |-> r.w, tr |-> r.tr,
                  summary |-> IF r.stopped THEN <<>> ELSE ResultsSummary(keys, r.st)]
                 : r \in ProcessFiles(1, files, keys, S,
                                      [k \in KeyIds |-> NoWidgets], T) }
               : keys \in { IF Len(keys0) # Len(files)
                            THEN [i \in 1..Len(files) |-> i - 1] ELSE keys0 } }

\* the script on a session that holds no entry of any file: its outcomes depend
\* on the uploaded files alone
FirstRun(files) ==
  Run(files, [i \in 1..Len(files) |-> i - 1], [k \in KeyIds |-> NoEntry],
      [k \in KeyIds |-> NoTrace])
FirstRuns ==
  (<<>> :> FirstRun(<<>>)) @@ [files \in Uploads \ {<<>>} |-> FirstRun(files)]

\* the state after the script ran on (files, keys, S)
Rendered(files, keys, S, T) ==
  /\ uploaded_files' = files
  /\ \E r \in (IF /\ files \in DOMAIN FirstRuns
                   /\ keys = [i \in 1..Len(files) |-> i - 1]
                   /\ S = [k \in KeyIds |-> NoEntry]
                   /\ T = [k \in KeyIds |-> NoTrace]
                THEN FirstRuns[files]
                ELSE Run(files, keys, S, T)) :
     /\ uploaded_files_keys' = r.keys
     /\ st' = r.st
     /\ widgets' = r.w
     /\ trace' = r.tr
     /\ summary' = r.summary

\* handle_upload: delete every entry of the old keys, renumber the keys
mut_handle_upload_keeps_entries(files, keys, S) ==
  [keys |-> [i \in 1..Len(files) |-> i - 1], st |-> S]
handle_upload(files, keys, S) ==
  [keys |-> [i \in 1..Len(files) |-> i - 1],
   st |-> [k \in KeyIds |-> IF \E i \in DOMAIN keys : keys[i] = k
                            THEN NoEntry ELSE S[k]]]

\* ---------------------------------------------------------------- actions
Init ==
  /\ uploaded_files = <<>>
  /\ uploaded_files_keys = <<>>
  /\ st = [k \in KeyIds |-> NoEntry]
  /\ widgets = [k \in KeyIds |-> NoWidgets]
  /\ summary = <<>>
  /\ trace = [k \in KeyIds |-> NoTrace]
  /\ reloadOf = NoReload
  /\ fnIn = FnIdle
  /\ fnOut = FnNone

\* the operator changes the uploaded files: handle_upload, then the script
Upload ==
  \E files \in Uploads :
    LET h == handle_upload(files, uploaded_files_keys, st)
    IN /\ Rendered(files, h.keys, h.st, [k \in KeyIds |-> NoTrace])
       /\ reloadOf' = NoReload
       /\ UNCHANGED <<fnIn, fnOut>>

\* the operator uploads the export of file k instead
UploadExported ==
  \E k \in KeyIds :
    /\ st[k].output.has
    /\ reloadOf.gen < MaxReloads
    /\ LET files == << [ok |-> TRUE] @@ read_csv(st[k].output.csv) >>
           h == handle_upload(files, uploaded_files_keys, st)
       IN Rendered(files, h.keys, h.st, [j \in KeyIds |-> NoTrace])
    /\ reloadOf' = [gen |-> reloadOf.gen + 1, csv |-> st[k].output.csv]
    /\ UNCHANGED <<fnIn, fnOut>>

\* the operator picks another option of the radio: set_radio_spec, then the script
ChangeRadioSpec ==
  \E k \in KeyIds, opt \in SpecOptions :
    /\ st[k].radio_spec # Absent
    /\ opt # st[k].radio_spec
    /\ Rendered(uploaded_files, uploaded_files_keys,
                [st EXCEPT ![k].radio_spec = opt, ![k].choice_spec = opt], trace)
    /\ UNCHANGED <<reloadOf, fnIn, fnOut>>

\* the operator clicks "Confirm Special Chars": set_decision_spec, then the script
ConfirmSpec ==
  \E k \in KeyIds :
    /\ widgets[k].btn_spec # Absent
    /\ Rendered(uploaded_files, uploaded_files_keys,
                [st EXCEPT ![k].decision_spec = widgets[k].btn_spec], trace)
    /\ UNCHANGED <<reloadOf, fnIn, fnOut>>

ChangeRadioDup ==
  \E k \in KeyIds, opt \in DupOptions :
    /\ st[k].radio_dup # Absent
    /\ opt # st[k].radio_dup
    /\ Rendered(uploaded_files, uploaded_files_keys,
                [st EXCEPT ![k].radio_dup = opt, ![k].choice_dup = opt], trace)
    /\ UNCHANGED <<reloadOf, fnIn, fnOut>>

ConfirmDup ==
  \E k \in KeyIds :
    /\ widgets[k].btn_dup # Absent
    /\ Rendered(uploaded_files, uploaded_files_keys,
                [st EXCEPT ![k].decision_dup = widgets[k].btn_dup], trace)
    /\ UNCHANGED <<reloadOf, fnIn, fnOut>>

\* the operator clicks the download button: the script runs again
Download ==
  \E k \in KeyIds :
    /\ widgets[k].download
    /\ Rendered(uploaded_files, uploaded_files_keys, st, trace)
    /\ UNCHANGED <<reloadOf, fnIn, fnOut>>

\* the script runs again without any widget event
Rerun ==
  /\ Rendered(uploaded_files, uploaded_files_keys, st, trace)
  /\ UNCHANGED <<reloadOf, fnIn, fnOut>>

Next ==
  \/ Upload
  \/ ChangeRadioSpec
  \/ ConfirmSpec
  \/ ChangeRadioDup
  \/ ConfirmDup
  \/ Download
  \/ Rerun

Spec == Init /\ [][Next]_vars

\* ---------------------------------------------------------------- the round trip
\* One upload, its processing, and the export uploaded again.
FirstUpload ==
  /\ Len(uploaded_files) = 0
  /\ reloadOf.gen = 0
  /\ \E f \in FilePool :
       LET h == handle_upload(<<f>>, uploaded_files_keys, st)
       IN Rendered(<<f>>, h.keys, h.st, [k \in KeyIds |-> NoTrace])
  /\ UNCHANGED <<reloadOf, fnIn, fnOut>>

NextRoundTrip ==
  \/ FirstUpload
  \/ UploadExported
  \/ ChangeRadioSpec
  \/ ConfirmSpec
  \/ ChangeRadioDup
  \/ ConfirmDup
  \/ Download
  \/ Rerun

SpecRoundTrip == Init /\ [][NextRoundTrip]_vars

\* ---------------------------------------------------------------- the helpers alone
Alphabet == {"N", "A", "a", "/", "1", " ", "\t", "-"}

TextsUpTo(n) == UNION {[1..m -> Alphabet] : m \in 0..n}

\* longer values the source names
ExtraTexts ==
  { sblank, <<"B","L","A","N","K">>, <<" ","N","/","A"," ">>, <<" ","n","/","a">>,
    <<"1","0","/","1","0","/","2","0","2","0">>, <<"1","0","1">>, <<"5">> }

UnitTexts == TextsUpTo(MaxLen) \cup ExtraTexts
TowerTexts == {sEmpty, tA, sNSlashA, <<" ","n","a"," ">>, sblank}
CorpTexts == {sEmpty, cX}

InitFn ==
  /\ uploaded_files = <<>>
  /\ uploaded_files_keys = <<>>
  /\ st = [k \in KeyIds |-> NoEntry]
  /\ widgets = [k \in KeyIds |-> NoWidgets]
  /\ summary = <<>>
  /\ trace = [k \in KeyIds |-> NoTrace]
  /\ reloadOf = NoReload
  /\ fnIn \in [op : {"idle"}, unit : UnitTexts, tower : TowerTexts, corp : CorpTexts,
              name : {<<>>}]
  /\ fnOut = FnNone

FnFrame == UNCHANGED <<uploaded_files, uploaded_files_keys, st, widgets, summary,
                       trace, reloadOf>>

\* contains_special_chars(unit)
CallContainsSpecialChars ==
  /\ fnIn.op = "idle"
  /\ fnIn' = [fnIn EXCEPT !.op = "contains_special_chars"]
  /\ fnOut' = [flag |-> contains_special_chars(fnIn.unit), text |-> <<>>]
  /\ FnFrame

\* clean_field(unit)
CallCleanField ==
  /\ fnIn.op = "idle"
  /\ fnIn' = [fnIn EXCEPT !.op = "clean_field"]
  /\ fnOut' = [flag |-> FALSE, text |-> clean_field(fnIn.unit)]
  /\ FnFrame

\* build_unit_unconditional on the row (tower, unit, corp)
CallBuildUnit ==
  /\ fnIn.op = "idle"
  /\ fnIn' = [fnIn EXCEPT !.op = "build_unit_unconditional"]
  /\ fnOut' = [flag |-> FALSE,
               text |-> build_unit_unconditional(
                          [i |-> 0, c |-> <<fnIn.tower, fnIn.unit, fnIn.corp>>], 2, 1, 3)]
  /\ FnFrame

NextFn == CallContainsSpecialChars \/ CallCleanField \/ CallBuildUnit

SpecFn == InitFn /\ [][NextFn]_vars

\* ---------------------------------------------------------------- the file name alone
\* names the uploader accepts: a stem and an extension in some letter casing
StemAlphabet == {"a", "b", "."}
Stems == UNION {[1..m -> StemAlphabet] : m \in 1..MaxLen}
Extensions ==
  { extCsv, extXlsx, <<".", "C", "S", "V">>, <<".", "X", "l", "s", "x">> }
FileNames == {stem \o ext : stem \in Stems, ext \in Extensions}

InitName ==
  /\ uploaded_files = <<>>
  /\ uploaded_files_keys = <<>>
  /\ st = [k \in KeyIds |-> NoEntry]
  /\ widgets = [k \in KeyIds |-> NoWidgets]
  /\ summary = <<>>
  /\ trace = [k \in KeyIds |-> NoTrace]
  /\ reloadOf = NoReload
  /\ fnIn \in [op : {"idle"}, unit : {<<>>}, tower : {<<>>}, corp : {<<>>},
              name : FileNames]
  /\ fnOut = FnNone

\* the file_name argument of st.download_button for the file fnIn.name
CallDownloadFileName ==
  /\ fnIn.op = "idle"
  /\ fnIn' = [fnIn EXCEPT !.op = "download_file_name"]
  /\ fnOut' = [flag |-> FALSE, text |-> download_file_name(fnIn.name)]
  /\ FnFrame

NextName == CallDownloadFileName

SpecName == InitName /\ [][NextName]_vars

\* ================================================================ claims
UnitCol(k) == FirstCol(st[k].data.cols, kwUnit)
TowerCol(k) == FirstCol(st[k].data.cols, kwTower)
CorpCol(k) == FirstCol(st[k].data.cols, kwCorporate)

\* ---------------------------------------------------------------- C1
\* C1: the pipeline never goes past a decision point without an answer. While
\* the special-character gate is open and decision_spec is None, no duplicate
\* check, no identifier and no output exist for the file; while the duplicate
\* gate is open and decision_dup is None, no identifier and no output exist;
\* and a decision turns from None to an answer only in a step of the Confirm
\* button of its gate.
C1_Waiting ==
  \A k \in KeyIds :
    /\ (trace[k].specGate /\ st[k].decision_spec = NoneVal)
         => /\ ~trace[k].dupChecked
            /\ ~trace[k].built
            /\ ~st[k].output.has
            /\ ~widgets[k].download
            /\ st[k].result.kind = Absent
    /\ (trace[k].dupGate /\ st[k].decision_dup = NoneVal)
         => /\ ~trace[k].built
            /\ ~st[k].output.has
            /\ ~widgets[k].download
            /\ st[k].result.kind = Absent

C1_OnlyByConfirm ==
  \A k \in KeyIds :
    /\ (st[k].decision_spec = NoneVal /\ st'[k].decision_spec \notin {NoneVal, Absent})
         => ConfirmSpec
    /\ (st[k].decision_dup = NoneVal /\ st'[k].decision_dup \notin {NoneVal, Absent})
         => ConfirmDup
    /\ (st[k].decision_spec = Absent => st'[k].decision_spec \in {NoneVal, Absent})
    /\ (st[k].decision_dup = Absent => st'[k].decision_dup \in {NoneVal, Absent})

C1_NoStepPastOpenGate == [](C1_Waiting) /\ [][C1_OnlyByConfirm]_vars

\* the special-character gate was answered and the duplicate gate now waits
C1_Witness ==
  \E k \in KeyIds :
    /\ trace[k].specGate
    /\ st[k].decision_spec \in {"keep", "delete"}
    /\ trace[k].dupGate
    /\ st[k].decision_dup = NoneVal
    /\ widgets[k].btn_dup # Absent

\* ---------------------------------------------------------------- C2
\* C2: after cancel at either gate the file's result is the cancellation
\* message, nothing was built, no output entry exists and no download is
\* offered; the result stays until the upload changes.
C2_Canceled ==
  \A k \in KeyIds :
    /\ st[k].decision_spec = "cancel"
         => /\ st[k].result.kind = "cancel_spec"
            /\ ~trace[k].dupChecked
            /\ ~trace[k].built
            /\ ~st[k].output.has
            /\ ~widgets[k].download
    /\ st[k].decision_dup = "cancel"
         => /\ st[k].result.kind = "cancel_dup"
            /\ ~trace[k].built
            /\ ~st[k].output.has
            /\ ~widgets[k].download

C2_Stays ==
  \A k \in KeyIds :
    st[k].result.kind \in {"cancel_spec", "cancel_dup"}
      => \/ /\ st'[k].result = st[k].result
            /\ ~st'[k].output.has
            /\ ~widgets'[k].download
         \/ Upload

C2_CancelIsFinal == [](C2_Canceled) /\ [][C2_Stays]_vars

\* a file canceled at the duplicate gate, after its special-character gate
C2_Witness ==
  \E k \in KeyIds :
    /\ st[k].decision_spec \in {"keep", "delete"}
    /\ st[k].decision_dup = "cancel"
    /\ st[k].result.kind = "cancel_dup"
    /\ summary # <<>>

\* ---------------------------------------------------------------- C3
\* C3: the duplicate key is the built identifier. When a table is exported,
\* every group of two or more rows left by the validity decision that share a
\* built identifier was shown, with all its members, at the duplicate gate, and
\* when the duplicate gate was not opened the export holds every one of those
\* rows (no row is removed as a duplicate unasked).
C3_GateOnIdentifier ==
  \A k \in KeyIds :
    trace[k].exported =>
      LET df == trace[k].afterSpec
          ids == [p \in DOMAIN df |->
                   build_unit_unconditional(df[p], UnitCol(k), TowerCol(k), CorpCol(k))]
          grouped == {p \in DOMAIN df : \E q \in DOMAIN df : q # p /\ ids[q] = ids[p]}
      IN /\ grouped # {}
              => /\ trace[k].dupGate
                 /\ \A p \in grouped : df[p].i \in Labels(trace[k].dup_rows)
         /\ ~trace[k].dupGate => Len(trace[k].outRows) = Len(df)

\* ---------------------------------------------------------------- C4
\* the table an export holds, and the position of its 'Unit' column
Exported(k) == read_csv(st[k].output.csv)
UnitPos(cols) == CHOOSE j \in DOMAIN cols : cols[j] = sUnit

\* C4: after the operator chose "Retain 1 Row", no two rows of the exported
\* table hold the same value in the 'Unit' column.
C4_CollapsedUnitsDistinct ==
  \A k \in KeyIds :
    (st[k].decision_dup = "retain_one" /\ st[k].output.has) =>
      LET t == Exported(k)
          j == UnitPos(t.cols)
      IN \A p, q \in DOMAIN t.rows : p # q => t.rows[p][j] # t.rows[q][j]

\* a collapsed table that lost a row and still holds two
C4_Witness ==
  \E k \in KeyIds :
    /\ st[k].decision_dup = "retain_one"
    /\ st[k].output.has
    /\ Len(Exported(k).rows) >= 2
    /\ Len(Exported(k).rows) < Len(st[k].data.rows)

\* ---------------------------------------------------------------- C5
\* C5: for a table with problematic rows P, once the answer is applied: after
\* "delete" the rows left are exactly the rows outside P, each unchanged and in
\* the original order, their number is the table's less |P|, and a processed
\* result reports |P| deleted rows; after "keep" the rows are the table's rows.
C5_DeleteRemovesExactlyP ==
  \A k \in KeyIds :
    (trace[k].specGate /\ trace[k].dupChecked) =>
      LET df == Frame(st[k].data)
          P == {p \in DOMAIN df : contains_special_chars(df[p].c[UnitCol(k)])}
          left == trace[k].afterSpec
      IN /\ P # {}
         /\ st[k].decision_spec \in {"keep", "delete"}
         /\ st[k].decision_spec = "delete"
              => /\ Len(left) = Len(df) - Cardinality(P)
                 /\ \A q \in DOMAIN left : left[q] = df[left[q].i + 1]
                 /\ \A q \in DOMAIN left : (left[q].i + 1) \notin P
                 /\ \A q, r \in DOMAIN left : q < r => left[q].i < left[r].i
                 /\ st[k].result.kind = "processed"
                      => st[k].result.deleted = Cardinality(P)
         /\ st[k].decision_spec = "keep"
              => /\ left = df
                 /\ st[k].result.kind = "processed" => st[k].result.deleted = 0

\* rows were deleted, others are left, and the table was processed
C5_Witness ==
  \E k \in KeyIds :
    /\ trace[k].specGate
    /\ st[k].decision_spec = "delete"
    /\ st[k].result.kind = "processed"
    /\ st[k].result.deleted >= 1
    /\ Len(trace[k].afterSpec) >= 2

\* ---------------------------------------------------------------- C6
\* a value trimmed, and empty when it reads n/a, na or blank in any casing
C6_Normalized(v) ==
  LET t == Strip(v)
  IN IF LowerStr(t) \in {<<"n","/","a">>, <<"n","a">>, <<"b","l","a","n","k">>, <<>>}
     THEN <<>> ELSE t

\* C6 as stated: the identifier is "{Tower} - {Unit}" when the normalized Tower
\* is not empty and "{Unit}" otherwise, {Unit} being the trimmed Unit value
\* whatever it reads.
C6_TrimmedUnitAlwaysJoined ==
  fnIn.op = "build_unit_unconditional" =>
    LET tower == C6_Normalized(fnIn.tower)
        unit == Strip(fnIn.unit)
    IN fnOut.text = IF tower # <<>> THEN tower \o <<" ", "-", " ">> \o unit ELSE unit

\* C6 amended: the identifier joins the non-empty ones of the normalized Tower
\* and the normalized Unit with " - "; a Unit that reads n/a, na, blank or is
\* empty is left out like such a Tower.
C6_NonEmptyPartsJoined ==
  fnIn.op = "build_unit_unconditional" =>
    LET tower == C6_Normalized(fnIn.tower)
        unit == C6_Normalized(fnIn.unit)
    IN fnOut.text = IF tower # <<>> /\ unit # <<>>
                    THEN tower \o <<" ", "-", " ">> \o unit
                    ELSE IF tower # <<>> THEN tower ELSE unit

\* Tower "A" with Unit "NA": the identifier is "A"
C6_Witness ==
  /\ fnIn.op = "build_unit_unconditional"
  /\ fnIn.tower = <<"A">>
  /\ fnIn.unit = <<"N", "A">>
  /\ fnOut.text = <<"A">>

\* ---------------------------------------------------------------- C7
\* pairs of rows left by the validity decision with the same Tower and Unit
\* and different Corporate values
C7_Pairs(k) ==
  LET df == trace[k].afterSpec
  IN IF CorpCol(k) = 0 THEN {}
     ELSE {pq \in (DOMAIN df) \X (DOMAIN df) :
             /\ pq[1] < pq[2]
             /\ TempKey(df[pq[1]], UnitCol(k), TowerCol(k))
                  = TempKey(df[pq[2]], UnitCol(k), TowerCol(k))
             /\ Strip(df[pq[1]].c[CorpCol(k)]) # Strip(df[pq[2]].c[CorpCol(k)])}

\* the position in the rows the identifiers were built for of the row labelled i
C7_BuiltAt(k, i) ==
  LET at == {p \in DOMAIN trace[k].builtRows : trace[k].builtRows[p].i = i}
  IN IF at = {} THEN 0 ELSE CHOOSE p \in at : TRUE

C8_Class ==
  {UpperCase[i] : i \in DOMAIN UpperCase} \cup {LowerCase[i] : i \in DOMAIN LowerCase}
    \cup Digits \cup {" ", "-"}
C8_ClassWithWhitespace == C8_Class \cup {"\t"}

\* C8 as stated: every Unit value with a character outside
\* [A-Za-z0-9 space hyphen] is reported problematic.
C8_OutsideClassFlagged ==
  (fnIn.op = "contains_special_chars"
     /\ \E i \in DOMAIN fnIn.unit : fnIn.unit[i] \notin C8_Class)
    => fnOut.flag

\* C8 amended: every Unit value that, trimmed, does not read N/A in any casing
\* and holds a character that is no ASCII letter, digit, whitespace or hyphen
\* is reported problematic.
C8_OutsideClassFlaggedButNA ==
  (fnIn.op = "contains_special_chars"
     /\ UpperStr(Strip(fnIn.unit)) # <<"N", "/", "A">>
     /\ \E i \in DOMAIN fnIn.unit : fnIn.unit[i] \notin C8_ClassWithWhitespace)
    => fnOut.flag

\* "10/10/2020" is flagged
C8_Witness ==
  /\ fnIn.op = "contains_special_chars"
  /\ fnIn.unit = <<"1","0","/","1","0","/","2","0","2","0">>
  /\ fnOut.flag

\* ---------------------------------------------------------------- C9
\* C9: no cell of an exported table reads N/A or NA in any letter casing.
C9_NoNACellExported ==
  \A k \in KeyIds :
    st[k].output.has =>
      \A p \in DOMAIN Exported(k).rows :
        \A j \in DOMAIN Exported(k).rows[p] :
          UpperStr(Exported(k).rows[p][j]) \notin {<<"N", "/", "A">>, <<"N", "A">>}

\* ---------------------------------------------------------------- C10
\* C10: an exported table uploaded again and processed without a gate
\* opening is exported as it was.
C10_ReexportEqual ==
  \A k \in KeyIds :
    (/\ reloadOf.gen >= 1
     /\ st[k].output.has
     /\ ~trace[k].specGate
     /\ ~trace[k].dupGate)
      => st[k].output.csv = reloadOf.csv

\* ---------------------------------------------------------------- C11
\* the name without its last n characters
C11_Stem(name, n) == SubSeq(name, 1, Len(name) - n)
C11_EndsWith(name, ext) ==
  Len(name) >= Len(ext)
    /\ LowerStr(SubSeq(name, Len(name) - Len(ext) + 1, Len(name))) = ext

\* C11: for every accepted file name (ending in .xlsx or .csv in any letter
\* casing) the download file name is the name with that extension replaced by
\* "_cleaned.csv", once.
C11_ExtensionReplacedOnce ==
  fnIn.op = "download_file_name" =>
    /\ C11_EndsWith(fnIn.name, <<".", "x", "l", "s", "x">>)
         => fnOut.text = C11_Stem(fnIn.name, 5)
                           \o <<"_","c","l","e","a","n","e","d",".","c","s","v">>
    /\ C11_EndsWith(fnIn.name, <<".", "c", "s", "v">>)
         => fnOut.text = C11_Stem(fnIn.name, 4)
                           \o <<"_","c","l","e","a","n","e","d",".","c","s","v">>

\* ---------------------------------------------------------------- C12
\* the table of file k was read and none of its headers contains "unit"
C12_NoUnitHeader(k) ==
  /\ st[k].data.has
  /\ \A j \in DOMAIN st[k].data.cols :
       ~IsSubstring(<<"u","n","i","t">>, LowerStr(st[k].data.cols[j]))

C12_Terminal ==
  \A k \in KeyIds :
    C12_NoUnitHeader(k) =>
      /\ st[k].result.kind = "missing"
      /\ ~trace[k].specGate
      /\ ~trace[k].dupChecked
      /\ ~trace[k].dupGate
      /\ ~trace[k].built
      /\ widgets[k] = NoWidgets
      /\ st[k].decision_spec = Absent
      /\ st[k].decision_dup = Absent
      /\ ~st[k].output.has

C12_Stays ==
  \A k \in KeyIds :
    st[k].result.kind = "missing"
      => \/ /\ st'[k].result = st[k].result
            /\ ~st'[k].output.has
            /\ widgets'[k] = NoWidgets
         \/ Upload

\* C12: when no header contains "unit" the file's result is the missing-column
\* message; no gate was opened, nothing was built, no output entry exists and
\* no button is shown for the file, and the result stays so until the upload
\* changes.
C12_MissingUnitIsTerminal == [](C12_Terminal) /\ [][C12_Stays]_vars

\* a table without a Unit column was read and its result is in the summary
C12_Witness ==
  \E k \in KeyIds :
    /\ C12_NoUnitHeader(k)
    /\ st[k].result.kind = "missing"
    /\ Len(summary) = 1
    /\ summary[1].kind = "missing"

\* ---------------------------------------------------------------- C13
\* the key of the file at position i, and the positions whose earlier files
\* all have a result
C13_Key(i) == uploaded_files_keys[i]
C13_Reached(i) == \A j \in 1..(i - 1) : st[C13_Key(j)].result.kind # Absent
C13_AtGate(k) == widgets[k].btn_spec # Absent \/ widgets[k].btn_dup # Absent
C13_FailedAt ==
  {i \in DOMAIN uploaded_files_keys : ~uploaded_files[i].ok /\ C13_Reached(i)}

\* C13 as stated: a file that fails has the failure message as its result,
\* every later file of the upload has its result or waits at its gate, and
\* all recorded results are displayed.
C13_FailureNeverHidesResults ==
  \A i \in C13_FailedAt :
    /\ st[C13_Key(i)].result.kind = "error"
    /\ \A j \in (i + 1)..Len(uploaded_files_keys) :
         st[C13_Key(j)].result.kind # Absent \/ C13_AtGate(C13_Key(j))
    /\ summary = ResultsSummary(uploaded_files_keys, st)

\* C13 amended: a file that fails has the failure message as its result and
\* does not stop the run: the files after it are processed in upload order up
\* to the first one that waits at a decision point, and every run that no
\* decision point suspends displays all recorded results.
C13_FailureDoesNotStopBatch ==
  \A i \in C13_FailedAt :
    /\ st[C13_Key(i)].result.kind = "error"
    /\ \A j \in (i + 1)..Len(uploaded_files_keys) :
         C13_Reached(j)
           => st[C13_Key(j)].result.kind # Absent \/ C13_AtGate(C13_Key(j))
    /\ (\A j \in DOMAIN uploaded_files_keys : ~C13_AtGate(C13_Key(j)))
         => /\ Len(summary) = Len(uploaded_files_keys)
            /\ \A j \in DOMAIN summary : summary[j] = st[C13_Key(j)].result

\* the first file failed, the one after it was processed, both are displayed
C13_Witness ==
  /\ Len(uploaded_files_keys) >= 2
  /\ 1 \in C13_FailedAt
  /\ st[C13_Key(2)].result.kind = "processed"
  /\ Len(summary) = Len(uploaded_files_keys)
  /\ summary[1].kind = "error"

\* ---------------------------------------------------------------- C14
\* the exported row out is the row src of the table with columns cols: the
\* identifier id in the 'Unit' column (overwritten, or appended when no column
\* has that name), every other cell as it was, emptied when it reads N/A, n/a
\* or na
RowExportedAs(out, src, id, cols) ==
  LET named == {j \in DOMAIN cols : cols[j] = <<"U", "n", "i", "t">>}
  IN /\ Len(out) = IF named = {} THEN Len(cols) + 1 ELSE Len(cols)
     /\ \A j \in DOMAIN cols :
          IF j \in named THEN out[j] = id
          ELSE out[j] = IF src.c[j] \in {<<"N","/","A">>, <<"n","/","a">>, <<"n","a">>}
                        THEN <<>> ELSE src.c[j]
     /\ named = {} => out[Len(cols) + 1] = id

\* the identifier of the row at position p of the rows left by the validity
\* decision
IdOf(k, p) ==
  build_unit_unconditional(trace[k].afterSpec[p], UnitCol(k), TowerCol(k), CorpCol(k))

\* C14: after "Keep All" the exported table holds exactly the rows left by the
\* validity decision, in the same order.
C14_KeepAllRemovesNothing ==
  \A k \in KeyIds :
    (st[k].decision_dup = "keep" /\ st[k].output.has) =>
      LET out == Exported(k).rows
          df == trace[k].afterSpec
      IN /\ Len(out) = Len(df)
         /\ \A p \in DOMAIN df : RowExportedAs(out[p], df[p], IdOf(k, p), st[k].data.cols)

\* duplicates were shown, kept, and exported
C14_Witness ==
  \E k \in KeyIds :
    /\ st[k].decision_dup = "keep"
    /\ st[k].output.has
    /\ Len(trace[k].dup_rows) >= 2
    /\ Len(Exported(k).rows) >= 2

\* ---------------------------------------------------------------- C15
\* the m-th smallest member of a set of positions
C15_Nth(S, m) == CHOOSE p \in S : Cardinality({q \in S : q <= p}) = m

\* C15: after "Retain 1 Row" the exported table is the rows left by the
\* validity decision that are the first of their duplicate group (the rows
\* with the same built identifier), in their original order.
C15_CollapseKeepsFirsts ==
  \A k \in KeyIds :
    (st[k].decision_dup = "retain_one" /\ st[k].output.has) =>
      LET out == Exported(k).rows
          df == trace[k].afterSpec
          firsts == {p \in DOMAIN df : \A q \in 1..(p - 1) : IdOf(k, q) # IdOf(k, p)}
      IN /\ Len(out) = Cardinality(firsts)
         /\ \A m \in DOMAIN out :
              RowExportedAs(out[m], df[C15_Nth(firsts, m)],
                            IdOf(k, C15_Nth(firsts, m)), st[k].data.cols)

\* a table of three rows or more collapsed to two or more
C15_Witness ==
  \E k \in KeyIds :
    /\ st[k].decision_dup = "retain_one"
    /\ st[k].output.has
    /\ Len(trace[k].afterSpec) >= 3
    /\ Len(Exported(k).rows) >= 2
    /\ Len(Exported(k).rows) < Len(trace[k].afterSpec)

\* ---------------------------------------------------------------- C16
\* file k waits for an answer: a gate is open and its decision is None
C16_Suspended(k) ==
  \/ trace[k].specGate /\ st[k].decision_spec = NoneVal
  \/ trace[k].dupGate /\ st[k].decision_dup = NoneVal

\* something of file k exists: its table, a step of its pipeline, a widget or
\* its result
C16_Started(k) ==
  \/ st[k].data.has
  \/ trace[k].ran
  \/ widgets[k] # NoWidgets
  \/ st[k].result.kind # Absent

\* C16: files are processed in upload order. While a file waits at a decision
\* point no later file is loaded, validated or given a result, and a file has
\* started only if the file before it has its terminal result.
C16_Sequential ==
  \A i, j \in DOMAIN uploaded_files_keys :
    i < j =>
      /\ C16_Suspended(uploaded_files_keys[i]) => ~C16_Started(uploaded_files_keys[j])
      /\ C16_Started(uploaded_files_keys[j])
           => st[uploaded_files_keys[i]].result.kind
                \in {"processed", "cancel_spec", "cancel_dup", "missing", "error"}

\* the first of two files waits at its gate
C16_Witness ==
  /\ Len(uploaded_files_keys) >= 2
  /\ C16_Suspended(uploaded_files_keys[1])
  /\ widgets[uploaded_files_keys[1]].btn_spec # Absent
  /\ ~C16_Started(uploaded_files_keys[2])

\* ---------------------------------------------------------------- C17
\* the decision a gate's radio option stands for
C17_SpecOf(option) ==
  IF option = "Keep These Rows" THEN "keep"
  ELSE IF option = "Delete These Rows" THEN "delete" ELSE "cancel"
C17_DupOf(option) ==
  IF option = "Keep All (2+ Rows)" THEN "keep"
  ELSE IF option = "Retain 1 Row" THEN "retain_one" ELSE "cancel"

\* a step that gives a decision its answer stores what the option selected in
\* the radio at that moment stands for
C17_Faithful ==
  \A k \in KeyIds :
    /\ (st[k].decision_spec = NoneVal /\ st'[k].decision_spec \notin {NoneVal, Absent})
         => st'[k].decision_spec = C17_SpecOf(st[k].radio_spec)
    /\ (st[k].decision_dup = NoneVal /\ st'[k].decision_dup \notin {NoneVal, Absent})
         => st'[k].decision_dup = C17_DupOf(st[k].radio_dup)

\* an answered decision keeps its value in every step but a change of the upload
C17_WriteOnce ==
  \A k \in KeyIds :
    /\ st[k].decision_spec \notin {NoneVal, Absent}
         => (st'[k].decision_spec = st[k].decision_spec \/ Upload)
    /\ st[k].decision_dup \notin {NoneVal, Absent}
         => (st'[k].decision_dup = st[k].decision_dup \/ Upload)

\* C17: a confirmed decision is faithful and write-once: Confirm stores the
\* mapping of the option selected at that moment, and the stored answer never
\* changes until the upload changes, also when the radio is changed afterwards.
C17_DecisionWriteOnce == [][C17_Faithful /\ C17_WriteOnce]_vars

\* the radio of an answered gate was changed afterwards, the answer stands
C17_Witness ==
  \E k \in KeyIds :
    /\ st[k].decision_spec = "keep"
    /\ st[k].radio_spec = DeleteRows
    /\ st[k].decision_dup = NoneVal
    /\ trace[k].dupGate

\* ---------------------------------------------------------------- C18
\* a file that has its result keeps result, table and output as they are,
\* takes no further step of the pipeline and shows no button, in every step
\* but a change of the upload
C18_Cached ==
  \A k \in KeyIds :
    st[k].result.kind # Absent
      => \/ /\ st'[k].result = st[k].result
            /\ st'[k].data = st[k].data
            /\ st'[k].output = st[k].output
            /\ trace'[k] = trace[k]
            /\ widgets'[k] = NoWidgets
         \/ Upload

\* the download button of a file is shown only with the result of an export
C18_DownloadOnCompletion ==
  \A k \in KeyIds :
    widgets[k].download
      => st[k].result.kind = "processed" /\ trace[k].exported /\ st[k].output.has

\* C18: a file's result is computed at most once per upload. Once it is set,
\* later runs return it without reading the file, opening a gate, writing the
\* output or showing the download button, so that button is shown only in the
\* run that completes the file.
C18_ResultComputedOnce == [](C18_DownloadOnCompletion) /\ [][C18_Cached]_vars

\* a processed file in a later run: its output is kept, its button is gone
C18_Witness ==
  \E k \in KeyIds :
    /\ st[k].result.kind = "processed"
    /\ st[k].output.has
    /\ ~widgets[k].download
    /\ Len(summary) >= 1

\* ---------------------------------------------------------------- C19
\* whatever files the operator uploads now, handle_upload leaves no entry of
\* any file key and numbers the keys 0 .. n-1
C19_WipeLeavesNothing ==
  \A files \in Uploads :
    LET h == handle_upload(files, uploaded_files_keys, st)
    IN /\ \A k \in KeyIds :
            /\ h.st[k].result.kind = Absent
            /\ ~h.st[k].data.has
            /\ ~h.st[k].output.has
            /\ h.st[k].decision_spec = Absent
            /\ h.st[k].decision_dup = Absent
            /\ h.st[k].choice_spec = Absent
            /\ h.st[k].choice_dup = Absent
       /\ Len(h.keys) = Len(files)
       /\ \A i \in DOMAIN h.keys : h.keys[i] = i - 1

\* the entries of a key belong to the file now at its position: the cached
\* table is that file's table, and a key without a file has no entry
C19_EntriesAreOwn ==
  /\ Len(uploaded_files_keys) = Len(uploaded_files)
  /\ \A i \in DOMAIN uploaded_files_keys :
       LET e == st[uploaded_files_keys[i]]
       IN /\ uploaded_files_keys[i] = i - 1
          /\ e.data.has
               => /\ uploaded_files[i].ok
                  /\ e.data.cols = uploaded_files[i].cols
                  /\ e.data.rows = uploaded_files[i].rows
          /\ (e.result.kind = "error" /\ ~e.data.has) => ~uploaded_files[i].ok
  /\ \A k \in KeyIds :
       (\A i \in DOMAIN uploaded_files_keys : uploaded_files_keys[i] # k)
         => st[k] = NoEntry

\* a change of the upload leaves no answered decision and no choice behind
C19_UploadStartsAfresh ==
  Upload =>
    \A k \in KeyIds :
      /\ st'[k].decision_spec \in {Absent, NoneVal}
      /\ st'[k].decision_dup \in {Absent, NoneVal}
      /\ st'[k].choice_spec = Absent
      /\ st'[k].choice_dup = Absent

\* C19: after any change of the uploaded files no result, data, decision,
\* choice or output entry of any file key is left and the keys are numbered
\* 0 .. n-1, so a file never inherits the table, decision or result of a file
\* that held its position before.
C19_UploadWipesSession ==
  [](C19_WipeLeavesNothing /\ C19_EntriesAreOwn) /\ [][C19_UploadStartsAfresh]_vars

\* two files hold results and an answered decision; one file uploaded now takes
\* the place of the first
C19_Witness ==
  /\ Len(uploaded_files_keys) = 2
  /\ st[0].result.kind = "error"
  /\ st[1].result.kind = "processed"
  /\ st[1].decision_spec = "keep"
  /\ st[1].choice_spec = Absent
  /\ handle_upload(<<uploaded_files[2]>>, uploaded_files_keys, st).st[1] = NoEntry

\* ---------------------------------------------------------------- C20
\* in every step but a change of the upload the cached table of a file stays
\* as it was read, and a gate that was shown shows the same rows again
C20_Unchanged ==
  \A k \in KeyIds :
    st[k].data.has
      => \/ /\ st'[k].data = st[k].data
            /\ trace[k].specGate
                 => /\ trace'[k].specGate
                    /\ trace'[k].problem_rows = trace[k].problem_rows
            /\ trace[k].dupGate
                 => /\ trace'[k].dupGate
                    /\ trace'[k].dup_rows = trace[k].dup_rows
         \/ Upload

\* C20: processing never modifies the cached table data_<file>; the
\* problematic rows and the duplicate rows computed again when a run resumes
\* are the rows shown when the decision was asked for.
C20_CachedTableNeverModified == [][C20_Unchanged]_vars

\* resumed after "delete": rows were dropped from the copy, the cached table
\* holds them still, and the duplicate gate waits
C20_Witness ==
  \E k \in KeyIds :
    /\ st[k].decision_spec = "delete"
    /\ trace[k].specGate
    /\ Len(trace[k].afterSpec) < Len(st[k].data.rows)
    /\ trace[k].dupGate
    /\ st[k].decision_dup = NoneVal

====
